---- MODULE Spec2Model ----
(***************************************************************************)
(* LocaFind (src/main.py): one inbound request to /chat or /results and    *)
(* the chain of outbound calls it makes: geocode -> nearby search ->       *)
(* place details -> completion.  Requests share no mutable state, so one   *)
(* request is modelled; its endpoint, its raw query-string parameters and  *)
(* the responses of the external services are chosen nondeterministically. *)
(***************************************************************************)
EXTENDS Integers, Sequences, FiniteSets, TLC

VARIABLES endpoint, raw, pc, args, location, calls, place, response_text,
          error, outcome

vars == <<endpoint, raw, pc, args, location, calls, place, response_text,
          error, outcome>>

(* ------------------------------ bounds --------------------------------- *)
\* longest candidate list a nearby-search response carries
MaxCands == 2
\* longest completion text
MaxTextLen == 3

(* --------------------------- Python values ----------------------------- *)
\* Optional values: None is the empty tuple, a present value v is <<v>>.
None == <<>>
Some(v) == <<v>>

\* truthiness of an Optional[str] (`if location_name:`, `x and x.strip()`)
Truthy(s) == s # None /\ s[1] # ""

(* ------------------------------ inputs --------------------------------- *)
Query == "cafe"
RawLocationNames == {None, Some(""), Some("Shinjuku")}
RawOpenNow == {None, Some("true"), Some("false")}
RawPriceLevels == {None, Some(""), Some("2"), Some("5"), Some("x")}
RawRatings == {None, Some(" "), Some("4"), Some("x")}

RawRequests ==
  [location_name : RawLocationNames, open_now : RawOpenNow,
   price_level : RawPriceLevels, rating : RawRatings]

\* int(s) / float(s) on the strings of the input sets; anything else raises
IsNumeral(s) == s \in {"2", "4", "5"}
ParseNumber(s) == CASE s = "2" -> 2 [] s = "4" -> 4 [] s = "5" -> 5

\* s.strip() of the strings of the input sets: only " " has blanks to lose
StrStrip(s) == IF s = " " THEN "" ELSE s

(* ------------------------ external responses --------------------------- *)
Shinjuku == [lat |-> 35, lng |-> 139]
Osaka == [lat |-> 34, lng |-> 135]

GeoResponses ==
  {[raised |-> TRUE, status |-> 0, results |-> <<>>]} \cup
  [raised : {FALSE}, status : {200, 204, 500},
   results : {<<>>, <<Shinjuku>>, <<Osaka, Shinjuku>>}]

\* a candidate's rating: missing, 3 or 4
CandRatings == {None, Some(3), Some(4)}

RECURSIVE SeqsUpTo(_, _)
SeqsUpTo(S, n) ==
  IF n = 0 THEN {<<>>}
  ELSE LET shorter == SeqsUpTo(S, n - 1)
       IN shorter \cup {Append(s, x) : s \in shorter, x \in S}

\* the service's candidates, in the service's order; place_id is the rank
Candidates(ratings) ==
  [i \in 1..Len(ratings) |-> [place_id |-> i, rating |-> ratings[i]]]

SearchResponses ==
  {[raised |-> TRUE, status |-> 0, results |-> <<>>]} \cup
  [raised : {FALSE}, status : {200, 500},
   results : {Candidates(r) : r \in SeqsUpTo(CandRatings, MaxCands)}]

DetailsResponses ==
  {[raised |-> TRUE, status |-> 0, has_result |-> FALSE, website |-> None],
   [raised |-> FALSE, status |-> 500, has_result |-> FALSE, website |-> None],
   [raised |-> FALSE, status |-> 200, has_result |-> FALSE, website |-> None],
   [raised |-> FALSE, status |-> 200, has_result |-> TRUE, website |-> None],
   [raised |-> FALSE, status |-> 200, has_result |-> TRUE,
    website |-> Some("http://w")]}

Chars == {"a", "\n"}
Texts == SeqsUpTo(Chars, MaxTextLen)

CompletionResponses ==
  {[raised |-> TRUE, content |-> <<>>]} \cup
  [raised : {FALSE}, content : Texts]

(* ---------------------------- exceptions ------------------------------- *)
NoError == [type |-> "none", status |-> 0, detail |-> ""]
HTTPException(status_code, detail) ==
  [type |-> "HTTPException", status |-> status_code, detail |-> detail]
\* any exception that is not an HTTPException
OtherException(msg) == [type |-> "Exception", status |-> 0, detail |-> msg]

Pending == [kind |-> "pending", status |-> 0, detail |-> "", text |-> <<>>]

(* ----------------------- parameter conversion -------------------------- *)
\* /chat: the declared types Optional[bool], Optional[int], Optional[float]
\* are enforced by the framework before the handler body runs
ChatValid(r) ==
  /\ r.open_now = None \/ r.open_now[1] \in {"true", "false"}
  /\ r.price_level = None \/ IsNumeral(r.price_level[1])
  /\ r.rating = None \/ IsNumeral(r.rating[1])

ChatConvert(r) ==
  [location_name |-> r.location_name,
   open_now |-> IF r.open_now = None THEN None
                ELSE Some(r.open_now[1] = "true"),
   price_level |-> IF r.price_level = None THEN None
                   ELSE Some(ParseNumber(r.price_level[1])),
   rating |-> IF r.rating = None THEN None
              ELSE Some(ParseNumber(r.rating[1]))]

\* /results: location_name is a required str; the rest are Optional[str]
ResultsValid(r) == r.location_name # None

\* `x and x.strip()`: the conversion is attempted only for a non-blank string
Supplied(s) == Truthy(s) /\ StrStrip(s[1]) # ""

\* int(price_level) or float(rating) raises ValueError
ResultsConvertRaises(r) ==
  \/ Supplied(r.price_level) /\ ~IsNumeral(r.price_level[1])
  \/ Supplied(r.rating) /\ ~IsNumeral(r.rating[1])

ResultsConvert(r) ==
  [location_name |-> r.location_name,
   open_now |-> IF r.open_now = Some("true") THEN Some(TRUE) ELSE None,
   price_level |-> IF Supplied(r.price_level)
                   THEN Some(ParseNumber(r.price_level[1])) ELSE None,
   rating |-> IF Supplied(r.rating)
              THEN Some(ParseNumber(r.rating[1])) ELSE None]

(* --------------------------- error mapping ----------------------------- *)
\* ChatExcept with a plausible slip: `except Exception` comes first and
\* turns every HTTPException into a 500 as well
ChatExceptAll500(e) ==
  [kind |-> "http_error", status |-> 500,
   detail |-> "unexpected error: " \o e.detail, text |-> <<>>]

\* chat: `except HTTPException: raise e`, `except Exception: raise 500`
ChatExcept(e) ==
  IF e.type = "HTTPException"
  THEN [kind |-> "http_error", status |-> e.status, detail |-> e.detail,
        text |-> <<>>]
  ELSE [kind |-> "http_error", status |-> 500,
        detail |-> "unexpected error: " \o e.detail, text |-> <<>>]

\* display_results: only `except HTTPException` renders the page with the
\* error; any other exception leaves the handler
ResultsExcept(e) ==
  IF e.type = "HTTPException"
  THEN [kind |-> "error_page", status |-> 200, detail |-> e.detail,
        text |-> <<>>]
  ELSE [kind |-> "unhandled", status |-> 500, detail |-> e.detail,
        text |-> <<>>]

Except(ep, e) == IF ep = "chat" THEN ChatExcept(e) ELSE ResultsExcept(e)

(* ---------------------------- components ------------------------------- *)
DefaultLocation == "35.6895,139.6917"

\* f"{location['lat']},{location['lng']}"
FormatLocation(loc) == ToString(loc.lat) \o "," \o ToString(loc.lng)

\* get_coordinates with a plausible slip: a refused geocoding request falls
\* back to the default coordinate instead of raising
get_coordinates_fallback(resp) ==
  IF resp.raised
  THEN [value |-> "", exc |-> OtherException("geocode request failed")]
  ELSE IF resp.status # 200
  THEN [value |-> DefaultLocation, exc |-> NoError]
  ELSE IF resp.results = <<>>
  THEN [value |-> "", exc |-> HTTPException(404, "location not found")]
  ELSE [value |-> FormatLocation(resp.results[1]), exc |-> NoError]

\* get_coordinates with a plausible slip: every 2xx status is accepted
get_coordinates_2xx(resp) ==
  IF resp.raised
  THEN [value |-> "", exc |-> OtherException("geocode request failed")]
  ELSE IF resp.status < 200 \/ resp.status > 299
  THEN [value |-> "", exc |-> HTTPException(500, "geocode status")]
  ELSE IF resp.results = <<>>
  THEN [value |-> "", exc |-> HTTPException(404, "location not found")]
  ELSE [value |-> FormatLocation(resp.results[1]), exc |-> NoError]

\* get_coordinates on the response of the geocoding service:
\* the value returned, or the exception raised
get_coordinates(resp) ==
  IF resp.raised
  THEN [value |-> "", exc |-> OtherException("geocode request failed")]
  ELSE IF resp.status # 200
  THEN [value |-> "", exc |-> HTTPException(500, "geocode status")]
  ELSE IF resp.results = <<>>
  THEN [value |-> "", exc |-> HTTPException(404, "location not found")]
  ELSE [value |-> FormatLocation(resp.results[1]), exc |-> NoError]

\* the params dict of the nearby-search request
BuildParams(query, loc, open_now, price_level) ==
  [location |-> loc, radius |-> 1500, keyword |-> query, language |-> "ja",
   opennow |-> open_now, minprice |-> price_level, maxprice |-> price_level]

\* RatingOf with a plausible slip: a missing rating counts as the best one
RatingOfMissingHigh(c) == IF c.rating = None THEN 5 ELSE c.rating[1]

\* place.get("rating", 0)
RatingOf(c) == IF c.rating = None THEN 0 ELSE c.rating[1]

\* FilterByRating with a plausible slip: the filter is not applied
FilterByRatingOff(results, rating) == results

\* [place for place in results if place.get("rating", 0) >= rating]
FilterByRating(results, rating) ==
  IF rating = None THEN results
  ELSE SelectSeq(results, LAMBDA c : RatingOf(c) >= rating[1])

\* get_place_details on the response of the place-details service
get_place_details(resp) ==
  IF resp.raised
  THEN [value |-> None, exc |-> OtherException("details request failed")]
  ELSE IF resp.status # 200 THEN [value |-> None, exc |-> NoError]
  ELSE IF resp.has_result /\ resp.website # None
  THEN [value |-> resp.website, exc |-> NoError]
  ELSE [value |-> None, exc |-> NoError]

\* str.strip(): blanks and newlines lost at both ends
IsSpace(c) == c \in {" ", "\n"}

RECURSIVE lstrip(_)
lstrip(t) ==
  IF t = <<>> THEN t
  ELSE IF IsSpace(Head(t)) THEN lstrip(Tail(t)) ELSE t

RECURSIVE rstrip(_)
rstrip(t) ==
  IF t = <<>> THEN t
  ELSE IF IsSpace(t[Len(t)]) THEN rstrip(SubSeq(t, 1, Len(t) - 1)) ELSE t

strip(t) == rstrip(lstrip(t))

\* str.replace(old, new) for a one-character old
replace(t, old, new) == [i \in 1..Len(t) |-> IF t[i] = old THEN new ELSE t[i]]

\* content.strip().replace('\n', ' ')
NormaliseText(content) == replace(strip(content), "\n", " ")

\* the template filter: value.replace('\n', '<br>')
nl2br(value) == replace(value, "\n", "<br>")

(* ------------------------------- state --------------------------------- *)
NoArgs == [location_name |-> None, open_now |-> None, price_level |-> None,
           rating |-> None]

Init ==
  /\ endpoint \in {"chat", "results"}
  /\ raw \in RawRequests
  /\ pc = "RECEIVE"
  /\ args = NoArgs
  /\ location = ""
  /\ calls = <<>>
  /\ place = None
  /\ response_text = None
  /\ error = NoError
  /\ outcome = Pending

\* the exception e leaves search_nearby_places / generate_response and
\* reaches the handler's except clauses
Fail(e) ==
  /\ error' = e
  /\ outcome' = Except(endpoint, e)
  /\ pc' = "DONE"

\* the framework refuses the request before the handler body runs
Reject ==
  /\ outcome' = [kind |-> "http_error", status |-> 422,
                 detail |-> "validation", text |-> <<>>]
  /\ pc' = "DONE"
  /\ UNCHANGED <<args, error>>

(* ------------------------------ actions -------------------------------- *)
\* /chat: parameters are validated against the declared types
ReceiveChat ==
  /\ pc = "RECEIVE" /\ endpoint = "chat"
  /\ IF ChatValid(raw)
     THEN /\ args' = ChatConvert(raw)
          /\ pc' = "RESOLVE_LOCATION"
          /\ UNCHANGED <<error, outcome>>
     ELSE Reject
  /\ UNCHANGED <<endpoint, raw, location, calls, place, response_text>>

\* /results: the handler converts the strings itself, inside its try block
ReceiveResults ==
  /\ pc = "RECEIVE" /\ endpoint = "results"
  /\ IF ~ResultsValid(raw) THEN Reject
     ELSE IF ResultsConvertRaises(raw)
     THEN Fail(OtherException("ValueError")) /\ UNCHANGED args
     ELSE /\ args' = ResultsConvert(raw)
          /\ pc' = "RESOLVE_LOCATION"
          /\ UNCHANGED <<error, outcome>>
  /\ UNCHANGED <<endpoint, raw, location, calls, place, response_text>>

\* search_nearby_places, up to the coordinate
ResolveLocation ==
  /\ pc = "RESOLVE_LOCATION"
  /\ IF Truthy(args.location_name)
     THEN \E resp \in GeoResponses :
            LET r == get_coordinates(resp) IN
            /\ calls' = Append(calls, [service |-> "geocode",
                                       params |-> args.location_name[1],
                                       response |-> resp])
            /\ IF r.exc = NoError
               THEN /\ location' = r.value
                    /\ pc' = "SEARCH_PLACE"
                    /\ UNCHANGED <<error, outcome>>
               ELSE Fail(r.exc) /\ UNCHANGED location
     ELSE /\ location' = DefaultLocation
          /\ pc' = "SEARCH_PLACE"
          /\ UNCHANGED <<calls, error, outcome>>
  /\ UNCHANGED <<endpoint, raw, args, place, response_text>>

\* search_nearby_places: the nearby-search request, the rating filter and
\* the choice of the place
SearchPlace ==
  /\ pc = "SEARCH_PLACE"
  /\ \E resp \in SearchResponses :
       LET results == FilterByRating(resp.results, args.rating) IN
       /\ calls' = Append(calls,
             [service |-> "search",
              params |-> BuildParams(Query, location, args.open_now,
                                     args.price_level),
              response |-> resp])
       /\ IF resp.raised
          THEN Fail(OtherException("search request failed")) /\ UNCHANGED place
          ELSE IF resp.status # 200
          THEN Fail(HTTPException(500, "search status")) /\ UNCHANGED place
          ELSE IF results = <<>>
          THEN Fail(HTTPException(404, "place not found")) /\ UNCHANGED place
          ELSE /\ place' = Some([place_id |-> results[1].place_id,
                                 rating |-> results[1].rating,
                                 website |-> None])
               /\ pc' = "AUGMENT_DETAILS"
               /\ UNCHANGED <<error, outcome>>
  /\ UNCHANGED <<endpoint, raw, args, location, response_text>>

\* search_nearby_places: get_place_details and the website field
AugmentDetails ==
  /\ pc = "AUGMENT_DETAILS"
  /\ \E resp \in DetailsResponses :
       LET r == get_place_details(resp) IN
       /\ calls' = Append(calls, [service |-> "details",
                                  params |-> place[1].place_id,
                                  response |-> resp])
       /\ IF r.exc = NoError
          THEN /\ place' = Some([place[1] EXCEPT !.website = r.value])
               /\ pc' = "GENERATE_NARRATIVE"
               /\ UNCHANGED <<error, outcome>>
          ELSE Fail(r.exc) /\ UNCHANGED place
  /\ UNCHANGED <<endpoint, raw, args, location, response_text>>

\* generate_response
GenerateNarrative ==
  /\ pc = "GENERATE_NARRATIVE"
  /\ \E resp \in CompletionResponses :
       /\ calls' = Append(calls, [service |-> "completion",
                                  params |-> place[1].place_id,
                                  response |-> resp])
       /\ IF resp.raised
          THEN Fail(HTTPException(500, "OpenAI error"))
               /\ UNCHANGED response_text
          ELSE /\ response_text' = Some(NormaliseText(resp.content))
               /\ pc' = "RESPOND"
               /\ UNCHANGED <<error, outcome>>
  /\ UNCHANGED <<endpoint, raw, args, location, place>>

\* the handler's return: the JSON body or the rendered template
Respond ==
  /\ pc = "RESPOND"
  /\ outcome' = [kind |-> IF endpoint = "chat" THEN "json" ELSE "result_page",
                 status |-> 200, detail |-> "", text |-> response_text[1]]
  /\ pc' = "DONE"
  /\ UNCHANGED <<endpoint, raw, args, location, calls, place, response_text,
                 error>>

Next ==
  \/ ReceiveChat
  \/ ReceiveResults
  \/ ResolveLocation
  \/ SearchPlace
  \/ AugmentDetails
  \/ GenerateNarrative
  \/ Respond

Spec == Init /\ [][Next]_vars

(* --------------------------- call history ------------------------------ *)
CallsTo(service) == SelectSeq(calls, LAMBDA c : c.service = service)
Called(service) == CallsTo(service) # <<>>
ResponseOf(service) == CallsTo(service)[1].response

StageOf(service) ==
  CASE service = "geocode" -> 1 [] service = "search" -> 2
    [] service = "details" -> 3 [] service = "completion" -> 4

\* the rating a candidate is compared by: a missing rating counts as 0
ClaimedRating(c) == IF c.rating = None THEN 0 ELSE c.rating[1]

\* candidate c passes the requested minimum rating
Qualifies(c) == args.rating = None \/ ClaimedRating(c) >= args.rating[1]

GeocodeOk ==
  LET g == ResponseOf("geocode")
  IN ~g.raised /\ g.status = 200 /\ g.results # <<>>

SearchOk ==
  LET r == ResponseOf("search")
  IN /\ ~r.raised /\ r.status = 200
     /\ \E i \in 1..Len(r.results) : Qualifies(r.results[i])

ErrorResponse == outcome.kind \in {"http_error", "error_page"}

Count(t, c) == Cardinality({i \in 1..Len(t) : t[i] = c})

(* ------------------------------ claims --------------------------------- *)
\* C1: the external calls of a request are issued in the order geocode,
\* nearby search, place details, completion, each at most once; a stage's
\* call is issued only after every earlier stage returned successfully, the
\* handler's position never precedes a call already made, and a stage that
\* raised an HTTPException ends the request at once with an error response.
C1_StagesInOrder ==
  /\ \A i, j \in 1..Len(calls) :
       i < j => StageOf(calls[i].service) < StageOf(calls[j].service)
  /\ Called("geocode") =>
       Truthy(args.location_name) /\ pc \notin {"RECEIVE", "RESOLVE_LOCATION"}
  /\ Called("search") =>
       /\ Called("geocode") => GeocodeOk
       /\ pc \notin {"RECEIVE", "RESOLVE_LOCATION", "SEARCH_PLACE"}
  /\ Called("details") =>
       /\ Called("search") /\ SearchOk
       /\ pc \in {"GENERATE_NARRATIVE", "RESPOND", "DONE"}
  /\ Called("completion") =>
       /\ Called("details") /\ ~ResponseOf("details").raised
       /\ pc \in {"RESPOND", "DONE"}
  /\ Called("geocode") /\ ~GeocodeOk => error # NoError
  /\ Called("search") /\ ~SearchOk => error # NoError
  /\ Called("completion") /\ ResponseOf("completion").raised =>
       error # NoError
  /\ error # NoError => pc = "DONE"
  /\ error.type = "HTTPException" => ErrorResponse

\* C1 witness: all four stages ran, in order, and the request was answered
C1_Witness ==
  /\ pc = "DONE" /\ Len(calls) = 4 /\ error = NoError
  /\ outcome.kind \in {"json", "result_page"}

\* C2: a selected place is the first candidate, in the service's order, whose
\* rating (missing counting as 0) is at least the requested minimum, or the
\* first candidate of all when no minimum was requested; and a successful
\* search with such a candidate always selects a place.
C2_FirstQualifying ==
  LET res == ResponseOf("search").results IN
  /\ place # None =>
       \E i \in 1..Len(res) :
         /\ place[1].place_id = res[i].place_id
         /\ place[1].rating = res[i].rating
         /\ args.rating = None => i = 1
         /\ args.rating # None =>
              /\ ClaimedRating(res[i]) >= args.rating[1]
              /\ \A j \in 1..(i - 1) : ClaimedRating(res[j]) < args.rating[1]
  /\ Called("search") /\ SearchOk => place # None

\* C2 witness: a minimum was requested, the first candidate was below it
\* and the second one was returned to the handler
C2_Witness ==
  /\ args.rating # None /\ place # None /\ place[1].place_id = 2
  /\ pc = "GENERATE_NARRATIVE"

\* C3: a successful nearby-search response with no candidate at or above the
\* requested minimum (an empty one included) raises HTTPException 404: no
\* place exists, neither place details nor completion is called and the
\* request ends in an error response; a place exists only when some
\* candidate passed the filter.
C3_NotFound ==
  /\ ( /\ Called("search")
       /\ ~ResponseOf("search").raised
       /\ ResponseOf("search").status = 200
       /\ ~SearchOk )
     => /\ error.type = "HTTPException" /\ error.status = 404
        /\ place = None
        /\ ~Called("details") /\ ~Called("completion")
        /\ pc = "DONE" /\ ErrorResponse
        /\ endpoint = "chat" => outcome.status = 404
  /\ place # None => Called("search") /\ SearchOk

\* C3 witness: candidates were returned and every one was below the minimum
C3_Witness ==
  /\ Called("search")
  /\ ResponseOf("search").status = 200
  /\ Len(ResponseOf("search").results) = 2
  /\ ~SearchOk
  /\ error.status = 404

\* C4: once the place-details call has failed in any way (the request
\* itself failing, a status other than 200) or has given no website, the
\* place keeps an absent website and the request does not end before the
\* completion call has been issued.
C4_DetailsNeverAbort ==
  ( /\ Called("details")
    /\ \/ ResponseOf("details").raised
       \/ ResponseOf("details").status # 200
       \/ ~ResponseOf("details").has_result
       \/ ResponseOf("details").website = None )
  => /\ place # None /\ place[1].website = None
     /\ pc = "DONE" => Called("completion")

NotFoundCondition ==
  /\ calls # <<>>
  /\ LET last == calls[Len(calls)] IN
     /\ last.service \in {"geocode", "search"}
     /\ ~last.response.raised /\ last.response.status = 200
     /\ \A i \in 1..Len(last.response.results) :
          last.service = "search" /\ ~Qualifies(last.response.results[i])

\* a request ended on an upstream failure: the last call made raised, or is
\* a geocoding or nearby-search call answered with a status other than 200
UpstreamFailure ==
  /\ calls # <<>>
  /\ LET last == calls[Len(calls)] IN
     \/ last.response.raised
     \/ last.service \in {"geocode", "search"} /\ last.response.status # 200

\* C6: a /chat request that passed validation ends in exactly one of the
\* body {"message": narrative}, HTTP 404 with a detail, HTTP 500 with a
\* detail: 404 exactly when nothing was found, 500 exactly on an upstream
\* failure (a refused geocoding or nearby search, a failed completion, any
\* other exception), the body exactly when the completion succeeded.
C6_ChatOutcome ==
  ( endpoint = "chat" /\ pc = "DONE" /\ ChatValid(raw) ) =>
    /\ \/ /\ outcome.kind = "json" /\ outcome.status = 200
          /\ response_text # None /\ outcome.text = response_text[1]
       \/ /\ outcome.kind = "http_error" /\ outcome.status \in {404, 500}
          /\ outcome.detail # ""
    /\ outcome.status = 404 <=> NotFoundCondition
    /\ outcome.status = 500 <=> UpstreamFailure
    /\ outcome.kind = "json" <=>
         ( Called("completion") /\ ~ResponseOf("completion").raised )

\* C6 witness: a /chat request ended 404 because no candidate qualified
C6_Witness ==
  /\ endpoint = "chat" /\ pc = "DONE"
  /\ outcome.kind = "http_error" /\ outcome.status = 404
  /\ Called("search")

\* C7: a /results request that reached the handler ends in a rendered
\* page, the result page or the error page, whatever failed.
C7_AlwaysRendered ==
  ( endpoint = "results" /\ pc = "DONE" /\ ResultsValid(raw) ) =>
    outcome.kind \in {"result_page", "error_page"}

\* C8: a /chat request with price_level 5 is refused before any external
\* call is made.
C8_PriceLevelRejected ==
  ( endpoint = "chat" /\ raw.price_level = Some("5") ) =>
    /\ calls = <<>>
    /\ pc = "DONE" => outcome.kind = "http_error" /\ outcome.status = 422

\* C9: the message of /chat holds no newline, each internal newline of the
\* completion text being one space; the text shown by /results, after the
\* nl2br filter, holds one <br> for each internal newline of the completion
\* text.
C9_NewlinesByEndpoint ==
  ( pc = "DONE" /\ outcome.kind \in {"json", "result_page"} ) =>
    LET content == ResponseOf("completion").content
        internal == Count(strip(content), "\n")
    IN /\ outcome.kind = "json" =>
            /\ Count(outcome.text, "\n") = 0
            /\ Len(outcome.text) = Len(strip(content))
            /\ Count(outcome.text, " ") = internal
       /\ outcome.kind = "result_page" =>
            Count(nl2br(outcome.text), "<br>") = internal

\* C10: where both endpoints accept the raw parameters, the handler at hand
\* works with the parameters the other endpoint would derive from them, and
\* its nearby-search request carries the other endpoint's opennow, minprice
\* and maxprice.
C10_SameOrchestration ==
  ( /\ pc # "RECEIVE"
    /\ ChatValid(raw) /\ ResultsValid(raw) /\ ~ResultsConvertRaises(raw) ) =>
    LET other == IF endpoint = "chat" THEN ResultsConvert(raw)
                 ELSE ChatConvert(raw)
    IN /\ args = other
       /\ Called("search") =>
            CallsTo("search")[1].params =
              BuildParams(Query, location, other.open_now, other.price_level)

====
